---- MODULE Spec2Model ----
(***************************************************************************)
(* Model of the transfer engine of comfy-model-manager: the worker pool of *)
(* DownloadManager.DownloadModels, the retry loop of downloadModel, the    *)
(* resumable copy of performDownload / downloadFile and the progress       *)
(* registry d.downloads.                                                   *)
(*                                                                         *)
(* Values.  An error is the sequence of the tokens of its text; the nil    *)
(* error is the empty sequence.  A path is the sequence of its components, *)
(* a ".tmp" suffix being one more component.  A file is the sequence of    *)
(* its bytes.                                                              *)
(***************************************************************************)
EXTENDS Integers, Sequences, FiniteSets, TLC

\* ------------------------------------------------------------------ bounds
MaxModels == 2
MaxWorkers == 2
MaxRetry == 2
ContentLen == 2
\* how many failures (of a request, a read, a rename, a mkdir) a run suffers
MaxFaults == 2
\* how many files and directories the disk holds when the scanner runs
MaxFiles == 2
\* how many paths of the disk cannot be examined
MaxStatErr == 1

\* ------------------------------------------------------------- the inputs
ModelTypeCheckpoint == "checkpoints"
ModelTypeLora == "loras"
ModelTypeVAE == "vae"

ComfyUIPath == "/workspace/ComfyUI"

ModelDirs ==
    [t \in {ModelTypeCheckpoint, ModelTypeLora} |->
        IF t = ModelTypeCheckpoint THEN "models/checkpoints" ELSE "models/loras"]

\* the components of a slash-separated name, as filepath.Join and filepath.Dir
\* see them
Split(name) ==
    CASE name = "xl/sd15.safetensors" -> <<"xl", "sd15.safetensors">>
      [] name = "xl/sd15.ckpt" -> <<"xl", "sd15.ckpt">>
      [] name = "xl/sd15.pt" -> <<"xl", "sd15.pt">>
      [] name = "xl/sd15.pth" -> <<"xl", "sd15.pth">>
      [] name = "xl/sd15.bin" -> <<"xl", "sd15.bin">>
      [] name = "xl/sd15.yaml" -> <<"xl", "sd15.yaml">>
      [] name = "xl/sd15.json" -> <<"xl", "sd15.json">>
      [] OTHER -> <<name>>

GetModelPath(modelType, filename) ==
    LET dir == IF modelType \in DOMAIN ModelDirs THEN ModelDirs[modelType]
               ELSE "models/unknown"
    IN  <<ComfyUIPath, dir>> \o Split(filename)

\* a reference as the parser makes it: Hash stays empty and IsPresent false
Model(t, n) ==
    [Name |-> n, Type |-> t, Hash |-> "", LocalPath |-> GetModelPath(t, n),
     IsPresent |-> FALSE]

\* the references a workflow of the model can hold: the parser keys them by
\* "type:name", so a name may occur once per type
Names == {"sd15.safetensors", "detail.safetensors"}
Refs == {Model(ModelTypeCheckpoint, "sd15.safetensors"),
         Model(ModelTypeLora, "sd15.safetensors"),
         Model(ModelTypeCheckpoint, "detail.safetensors")}

Key(m) == <<m.Type, m.Name>>
Keys == {Key(m) : m \in Refs}
RefOf(k) == CHOOSE m \in Refs : Key(m) = k

\* the registry a name is found in
SourceOf(n) == IF n = "sd15.safetensors" THEN "huggingface" ELSE "civitai"
SearchResult(n) == [Name |-> n, Source |-> SourceOf(n), DownloadURL |-> <<SourceOf(n), n>>]

\* the bytes the registry serves for an artifact
Content == [i \in 1..ContentLen |-> i]

NoModel == [Name |-> "", Type |-> "", Hash |-> "", LocalPath |-> <<>>, IsPresent |-> FALSE]
NoResult == [Name |-> "", Source |-> "", DownloadURL |-> <<>>]
DownloadJob(m, r) == [Model |-> m, SearchResult |-> r]
NoJob == DownloadJob(NoModel, NoResult)

Nil == <<>>

\* ------------------------------------------------------------ error texts
ToLower(tok) ==
    CASE tok = "Not Found" -> "not found"
      [] tok = "Forbidden" -> "forbidden"
      [] tok = "Unauthorized" -> "unauthorized"
      [] tok = "Internal Server Error" -> "internal server error"
      [] OTHER -> tok

\* strings.Contains(strings.ToLower(errStr), e), on the tokens of the text
ContainsFold(err, e) == \E i \in 1..Len(err) : ToLower(err[i]) = e

unrecoverableErrors == <<"404", "403", "401", "not found", "forbidden", "unauthorized">>

isUnrecoverableError(err) ==
    \E j \in 1..Len(unrecoverableErrors) : ContainsFold(err, unrecoverableErrors[j])

BadStatuses == {<<"404", "Not Found">>, <<"403", "Forbidden">>,
                <<"401", "Unauthorized">>, <<"500", "Internal Server Error">>}

\* fmt.Errorf("download failed: %s", resp.Status) and, for CivitAI,
\* fmt.Errorf("download failed: %s - %s", resp.Status, body)
DownloadFailed(src, status) ==
    IF src = "civitai" THEN <<"download failed:">> \o status \o <<"-", "body">>
    ELSE <<"download failed:">> \o status

ErrTransport == <<"connection reset by peer">>
ErrUnexpectedEOF == <<"unexpected EOF">>
ErrMkdir == <<"mkdir", "permission denied">>
ErrRename == <<"rename", "permission denied">>
ErrMoveTemp == <<"failed to move temp file:">> \o ErrRename
ErrMoveDownloaded == <<"failed to move downloaded file:">> \o ErrRename

\* fmt.Errorf("failed to download %s: %w", job.Model.Name, err)
WorkerError(job, err) == <<"failed to download", job.Model.Name, ":">> \o err


\* ------------------------------------------------------------------ state
VARIABLES
    models,          \* DownloadModels' argument: the missing references
    searchResults,   \* DownloadModels' argument: name -> SearchResult
    workers,         \* d.workers = config.MaxWorkers
    RetryAttempts,   \* d.config.RetryAttempts
    mpc,             \* where DownloadModels is
    qi,              \* index of the model the queueing loop looks at next
    jobs,            \* the jobs channel's buffer
    jobsClosed,
    errors,          \* the errors channel's buffer
    errorsClosed,
    wg,              \* the WaitGroup's counter
    closer,          \* the goroutine of lines 258-261
    downloadErrors,
    result,          \* what DownloadModels returns
    wk,              \* the workers' goroutines and their locals
    fs,              \* the files: path -> bytes
    dirs,            \* the directories
    heap,            \* the DownloadProgress objects, by the job that allocated them
    downloads,       \* d.downloads: name -> pointer into heap
    faults,          \* how many more failures the environment may cause
    hist,            \* per job: what happened to it so far
    writers,         \* <<path, job key>>: the job created, wrote or renamed the path
    parsed,          \* the references ParseWorkflow returned
    statErr,         \* the paths os.Stat fails on with an error other than "not exist"
    sc,              \* the call of ScanModels: its locals and what it returned
    tokens,          \* config.HuggingFaceToken and config.CivitAIToken
    rs,              \* the call of searchModels: its argument, goroutines and results
    pw,              \* the call of ProcessWorkflow: where it is and its locals
    snap,            \* what a call of GetProgress returned to its caller
    rg               \* a registry client turning a response into search results

vars == <<models, searchResults, workers, RetryAttempts, mpc, qi, jobs, jobsClosed,
          errors, errorsClosed, wg, closer, downloadErrors, result, wk, fs, dirs,
          heap, downloads, faults, hist, writers, parsed, statErr, sc, tokens, rs, pw,
          snap, rg>>

\* the scanner's state
scanVars == <<parsed, statErr, sc>>

\* the resolver's state
resolveVars == <<tokens, rs>>

\* what no step of the transfer engine changes
cfgVars == <<models, searchResults, workers, RetryAttempts, scanVars, resolveVars, pw,
             snap, rg>>
inputVars == <<cfgVars, faults>>
mainVars == <<mpc, qi, downloadErrors, result>>
chanVars == <<jobs, jobsClosed, errors, errorsClosed, wg, closer>>
diskVars == <<fs, dirs, writers>>
regVars == <<heap, downloads>>

WorkerIds == 1..MaxWorkers

\* duplicate-free sequences over S of length at most n
RECURSIVE SeqsUpTo(_, _)
SeqsUpTo(S, n) ==
    IF n = 0 THEN {<<>>}
    ELSE LET shorter == SeqsUpTo(S, n - 1)
         IN  shorter \cup {Append(q, x) : q \in {r \in shorter : Len(r) = n - 1},
                                          x \in S}

NoDup(q) == \A i, j \in 1..Len(q) : i # j => q[i] # q[j]

ModelLists == {q \in SeqsUpTo(Refs, MaxModels) : NoDup(q)}

NamesOf(q) == {q[i].Name : i \in 1..Len(q)}

\* the result mappings searchModels can hand over for a list of references
ResultMaps(q) == {[n \in S |-> SearchResult(n)] : S \in SUBSET NamesOf(q)}

\* part_003 294-297: &DownloadProgress{Model: job.Model, ...}.  unlocked is no
\* field of the code: it collects the fields that were written while d.mu was
\* not held, after the object was put into d.downloads
DownloadProgress(m) ==
    [Model |-> m, Downloaded |-> 0, Total |-> 0, Error |-> Nil, Completed |-> FALSE,
     unlocked |-> {}]

IdleWorker ==
    [pc |-> "none", job |-> NoJob, progress |-> <<>>, attempt |-> 0, lastErr |-> Nil,
     ret |-> Nil, resumeFrom |-> 0, dlResume |-> 0, downloaded |-> 0, total |-> 0,
     req |-> [URL |-> <<>>, Header |-> {}], slept |-> 0, staged |-> 0]

NoHist ==
    [takers |-> <<>>, tries |-> 0, partial |-> FALSE, renameFailed |-> FALSE,
     outcome |-> "none"]

\* ScanModels before its loop: lines 328-329.  round and first belong to no
\* call: they count the calls made and keep what the first call returned
NoScan ==
    [pc |-> "none", i |-> 1, present |-> <<>>, missing |-> <<>>, err |-> Nil,
     round |-> 0, first |-> <<>>]

\* searchModels not called: main.go 111-113
NoSearch == [pc |-> "none", models |-> <<>>, tasks |-> <<>>, results |-> <<>>, mu |-> 0]

NoTokens == [HuggingFace |-> "", CivitAI |-> ""]

\* GetProgress not called.  seen is no variable of the code: it keeps what the
\* caller could read through the returned mapping when it was returned
NoSnapshot == [taken |-> FALSE, progressCopy |-> <<>>, seen |-> <<>>]

\* no response of a registry is being looked at
NoListing == [pc |-> "none", api |-> "", modelType |-> "", files |-> <<>>, i |-> 1,
              results |-> <<>>]

\* ProcessWorkflow not called
NoWorkflow == [pc |-> "none", notFound |-> <<>>, err |-> Nil]

\* the transfer engine with DownloadModels at pc and nothing done yet, in an
\* environment that may cause budget failures
EngineAt(pc, budget) ==
    /\ mpc = pc
    /\ qi = 1
    /\ jobs = <<>>
    /\ jobsClosed = FALSE
    /\ errors = <<>>
    /\ errorsClosed = FALSE
    /\ wg = 0
    /\ closer = "none"
    /\ downloadErrors = <<>>
    /\ result = Nil
    /\ wk = [w \in WorkerIds |-> IdleWorker]
    /\ heap = <<>>
    /\ downloads = <<>>
    /\ faults = budget
    /\ hist = [k \in Keys |-> NoHist]
    /\ writers = {}

Init ==
    /\ models \in ModelLists
    /\ searchResults \in ResultMaps(models)
    /\ workers \in 0..MaxWorkers
    /\ RetryAttempts \in 0..MaxRetry
    /\ parsed = <<>>
    /\ statErr = {}
    /\ sc = NoScan
    /\ tokens = NoTokens
    /\ rs = NoSearch
    /\ pw = NoWorkflow
    /\ snap = NoSnapshot
    /\ rg = NoListing
    /\ mpc = "start"
    /\ qi = 1
    /\ jobs = <<>>
    /\ jobsClosed = FALSE
    /\ errors = <<>>
    /\ errorsClosed = FALSE
    /\ wg = 0
    /\ closer = "none"
    /\ downloadErrors = <<>>
    /\ result = Nil
    /\ wk = [w \in WorkerIds |-> IdleWorker]
    /\ fs = <<>>
    /\ dirs = {}
    /\ heap = <<>>
    /\ downloads = <<>>
    /\ faults = MaxFaults
    /\ hist = [k \in Keys |-> NoHist]
    /\ writers = {}

\* --------------------------------------------------------- DownloadModels
\* lines 239-244: wg.Add(1); go d.downloadWorker(...) for each of d.workers
StartWorkers ==
    /\ mpc = "start"
    /\ mpc' = "queue"
    /\ wg' = workers
    /\ wk' = [w \in WorkerIds |->
                IF w <= workers THEN [IdleWorker EXCEPT !.pc = "range"] ELSE wk[w]]
    /\ UNCHANGED <<inputVars, qi, downloadErrors, result, jobs, jobsClosed, errors,
                   errorsClosed, closer, diskVars, regVars, hist>>

\* lines 247-254: one turn of the queueing loop
QueueJob ==
    /\ mpc = "queue"
    /\ qi <= Len(models)
    /\ LET model == models[qi]
       IN  jobs' = IF model.Name \in DOMAIN searchResults
                   THEN Append(jobs, DownloadJob(model, searchResults[model.Name]))
                   ELSE jobs
    /\ qi' = qi + 1
    /\ UNCHANGED <<inputVars, mpc, downloadErrors, result, jobsClosed, errors,
                   errorsClosed, wg, closer, wk, diskVars, regVars, hist>>

\* the queue is left open
CloseJobsForgets ==
    /\ mpc = "queue"
    /\ qi > Len(models)
    /\ closer' = "waiting"
    /\ mpc' = "collect"
    /\ UNCHANGED <<inputVars, qi, downloadErrors, result, jobs, jobsClosed, errors,
                   errorsClosed, wg, wk, diskVars, regVars, hist>>

\* lines 255-261: close(jobs), and start the goroutine that waits for the workers
CloseJobs ==
    /\ mpc = "queue"
    /\ qi > Len(models)
    /\ jobsClosed' = TRUE
    /\ closer' = "waiting"
    /\ mpc' = "collect"
    /\ UNCHANGED <<inputVars, qi, downloadErrors, result, jobs, errors, errorsClosed,
                   wg, wk, diskVars, regVars, hist>>

\* lines 258-261: wg.Wait(); close(errors)
CloseErrors ==
    /\ closer = "waiting"
    /\ wg = 0
    /\ errorsClosed' = TRUE
    /\ closer' = "done"
    /\ UNCHANGED <<inputVars, mainVars, jobs, jobsClosed, errors, wg, wk, diskVars,
                   regVars, hist>>

\* a collector that keeps the nil results and drops the errors
CollectErrorInverted ==
    /\ mpc = "collect"
    /\ errors # <<>>
    /\ errors' = Tail(errors)
    /\ downloadErrors' = IF Head(errors) = Nil THEN Append(downloadErrors, Head(errors))
                         ELSE downloadErrors
    /\ UNCHANGED <<inputVars, mpc, qi, result, jobs, jobsClosed, errorsClosed, wg,
                   closer, wk, diskVars, regVars, hist>>

\* lines 265-269: one turn of "for err := range errors"
CollectError ==
    /\ mpc = "collect"
    /\ errors # <<>>
    /\ errors' = Tail(errors)
    /\ downloadErrors' = IF Head(errors) # Nil THEN Append(downloadErrors, Head(errors))
                         ELSE downloadErrors
    /\ UNCHANGED <<inputVars, mpc, qi, result, jobs, jobsClosed, errorsClosed, wg,
                   closer, wk, diskVars, regVars, hist>>

RECURSIVE Flatten(_)
Flatten(q) == IF q = <<>> THEN <<>> ELSE Head(q) \o Flatten(Tail(q))

\* lines 271-275: the range loop ends on the closed, drained channel
Return ==
    /\ mpc = "collect"
    /\ errors = <<>>
    /\ errorsClosed
    /\ result' = IF Len(downloadErrors) > 0
                 THEN <<"download errors:">> \o Flatten(downloadErrors)
                 ELSE Nil
    /\ mpc' = "returned"
    /\ UNCHANGED <<inputVars, qi, downloadErrors, chanVars, wk, diskVars, regVars, hist>>


\* --------------------------------------------------------- downloadWorker
SetWk(w, rec) == wk' = [wk EXCEPT ![w] = rec]

\* line 282: "for job := range jobs" receives a job
W_Take(w) ==
    /\ wk[w].pc = "range"
    /\ jobs # <<>>
    /\ jobs' = Tail(jobs)
    /\ SetWk(w, [wk[w] EXCEPT !.pc = "begin", !.job = Head(jobs)])
    /\ hist' = [hist EXCEPT ![Key(Head(jobs).Model)].takers = Append(@, w)]
    /\ UNCHANGED <<inputVars, mainVars, jobsClosed, errors, errorsClosed, wg, closer,
                   diskVars, regVars>>

\* line 282 and the deferred wg.Done(): the range loop ends on the closed,
\* drained channel
W_Exit(w) ==
    /\ wk[w].pc = "range"
    /\ jobs = <<>>
    /\ jobsClosed
    /\ SetWk(w, [wk[w] EXCEPT !.pc = "exited"])
    /\ wg' = wg - 1
    /\ UNCHANGED <<inputVars, mainVars, jobs, jobsClosed, errors, errorsClosed, closer,
                   diskVars, regVars, hist>>

\* a worker that gives up after the first job that fails
W_SendStopsOnError(w) ==
    /\ wk[w].pc = "send"
    /\ Len(errors) < Len(models)
    /\ errors' = Append(errors, IF wk[w].ret # Nil THEN WorkerError(wk[w].job, wk[w].ret)
                                ELSE Nil)
    /\ IF wk[w].ret # Nil
       THEN SetWk(w, [IdleWorker EXCEPT !.pc = "exited"]) /\ wg' = wg - 1
       ELSE SetWk(w, [IdleWorker EXCEPT !.pc = "range"]) /\ wg' = wg
    /\ UNCHANGED <<inputVars, mainVars, jobs, jobsClosed, errorsClosed, closer,
                   diskVars, regVars, hist>>

\* lines 284-288: the send on the errors channel, whose capacity is len(models)
W_Send(w) ==
    /\ wk[w].pc = "send"
    /\ Len(errors) < Len(models)
    /\ errors' = Append(errors, IF wk[w].ret # Nil THEN WorkerError(wk[w].job, wk[w].ret)
                                ELSE Nil)
    /\ SetWk(w, [IdleWorker EXCEPT !.pc = "range"])
    /\ UNCHANGED <<inputVars, mainVars, jobs, jobsClosed, errorsClosed, wg, closer,
                   diskVars, regVars, hist>>

\* ---------------------------------------------------------- downloadModel
\* the loop condition off by one
RetryLoopCondInclusive(attempt) == attempt <= RetryAttempts

\* line 312: the retry loop's condition
RetryLoopCond(attempt) == attempt < RetryAttempts

\* the same wait before every retry
BackoffConstant(attempt) == 2

\* line 316: time.Sleep(time.Second * time.Duration(attempt*2)), in seconds
Backoff(attempt) == attempt * 2

KeyOf(w) == Key(wk[w].job.Model)

\* filepath.Dir of a model's path
Dir(path) == SubSeq(path, 1, Len(path) - 1)

\* path + ".tmp"
Tmp(path) == Append(path, ".tmp")

\* downloadModel returns err (nil on success): the worker goes on to its send
Returned(rec, err) == [rec EXCEPT !.pc = "send", !.ret = err]

Outcome(rec) == IF rec.pc # "send" THEN "none" ELSE IF rec.ret = Nil THEN "ok" ELSE "failed"

\* lines 294-308 with MkdirAll succeeding, and the first test of the loop condition
W_Begin(w) ==
    /\ wk[w].pc = "begin"
    /\ LET job == wk[w].job
           p == Key(job.Model)
           rec == [wk[w] EXCEPT !.progress = p]
           next == IF RetryLoopCond(0) THEN [rec EXCEPT !.pc = "attempt"]
                   ELSE Returned(rec, rec.lastErr)
       IN  /\ heap' = (p :> DownloadProgress(job.Model)) @@ heap
           /\ downloads' = (job.Model.Name :> p) @@ downloads
           /\ dirs' = dirs \cup {Dir(job.Model.LocalPath)}
           /\ SetWk(w, next)
           /\ hist' = [hist EXCEPT ![Key(job.Model)].outcome = Outcome(next)]
    /\ UNCHANGED <<inputVars, mainVars, chanVars, fs, writers>>

\* lines 294-308 with MkdirAll failing
W_MkdirFails(w) ==
    /\ wk[w].pc = "begin"
    /\ LET job == wk[w].job
           p == Key(job.Model)
       IN  /\ Dir(job.Model.LocalPath) \notin dirs
           /\ faults > 0
           /\ faults' = faults - 1
           /\ heap' = (p :> [DownloadProgress(job.Model) EXCEPT
                                !.Error = ErrMkdir, !.unlocked = {"Error"}]) @@ heap
           /\ downloads' = (job.Model.Name :> p) @@ downloads
           /\ SetWk(w, Returned([wk[w] EXCEPT !.progress = p], ErrMkdir))
           /\ hist' = [hist EXCEPT ![Key(job.Model)].outcome = "failed"]
    /\ UNCHANGED <<cfgVars, mainVars, chanVars, diskVars>>

\* lines 325-334: an attempt failed with err
Failed(rec, err) ==
    LET r == [rec EXCEPT !.lastErr = err]
    IN  IF isUnrecoverableError(err) THEN Returned(r, err)
        ELSE IF RetryLoopCond(rec.attempt + 1)
             THEN [r EXCEPT !.pc = "attempt", !.attempt = @ + 1]
             ELSE Returned([r EXCEPT !.attempt = @ + 1], err)

\* -------------------------------------------------------- performDownload
\* http.NewRequest("GET", downloadURL, nil): neither client adds a header that
\* asks for a byte range
NewRequest(url) == [URL |-> url, Header |-> {}]

RangeOf(req) ==
    IF \E h \in req.Header : h[1] = "Range"
    THEN (CHOOSE h \in req.Header : h[1] = "Range")[2]
    ELSE 0

\* the registry server: the bytes from the requested offset on
ServerBody(req) == SubSeq(Content, RangeOf(req) + 1, Len(Content))

Size(path) == IF path \in DOMAIN fs THEN Len(fs[path]) ELSE 0

\* lines 312-317 and 339-346, and the client's request: what every attempt
\* does before the response is known.  staged is no variable of the code: it
\* notes how many bytes downloadFile's temporary file holds when the attempt
\* starts
Started(rec) ==
    LET tempPath == Tmp(rec.job.Model.LocalPath)
    IN  [rec EXCEPT !.resumeFrom = Size(tempPath),
                    !.staged = Size(Tmp(tempPath)),
                    !.slept = IF rec.attempt > 0 THEN Backoff(rec.attempt) ELSE 0,
                    !.req = NewRequest(rec.job.SearchResult.DownloadURL)]

\* lines 343-346: progress.Downloaded = resumeFrom when the stat succeeds,
\* written without d.mu
StartedHeap(rec) ==
    LET tempPath == Tmp(rec.job.Model.LocalPath)
    IN  IF tempPath \in DOMAIN fs
        THEN [heap EXCEPT ![rec.progress].Downloaded = Size(tempPath),
                          ![rec.progress].unlocked = @ \cup {"Downloaded"}]
        ELSE heap

\* an attempt that ends with err: lines 325-326, progress.Error = err written
\* without d.mu
AttemptFails(w, rec, hp, err) ==
    /\ faults > 0
    /\ faults' = faults - 1
    /\ SetWk(w, Failed(rec, err))
    /\ heap' = [hp EXCEPT ![rec.progress].Error = err,
                          ![rec.progress].unlocked = @ \cup {"Error"}]
    /\ UNCHANGED downloads

\* httpClient.Do returns an error
W_TransportError(w) ==
    /\ wk[w].pc = "attempt"
    /\ AttemptFails(w, Started(wk[w]), StartedHeap(wk[w]), ErrTransport)
    /\ hist' = [hist EXCEPT ![KeyOf(w)].tries = @ + 1,
                            ![KeyOf(w)].outcome = Outcome(Failed(Started(wk[w]), ErrTransport))]
    /\ UNCHANGED <<cfgVars, mainVars, chanVars, diskVars>>

\* resp.StatusCode != http.StatusOK
W_BadStatus(w, status) ==
    /\ wk[w].pc = "attempt"
    /\ LET err == DownloadFailed(wk[w].job.SearchResult.Source, status)
       IN  /\ AttemptFails(w, Started(wk[w]), StartedHeap(wk[w]), err)
           /\ hist' = [hist EXCEPT ![KeyOf(w)].tries = @ + 1,
                                   ![KeyOf(w)].outcome = Outcome(Failed(Started(wk[w]), err))]
    /\ UNCHANGED <<cfgVars, mainVars, chanVars, diskVars>>

\* ----------------------------------------------------------- downloadFile
\* os.Rename(from, to) on the files f
Rename(f, from, to) ==
    [q \in (DOMAIN f \ {from}) \cup {to} |-> IF q = to THEN f[from] ELSE f[q]]

\* resp.ContentLength: the length of the body when the server declares it, and
\* -1 when it does not; here the first registry declares it and the second
\* streams without
ContentLength(src, body) == IF src = "huggingface" THEN Len(body) ELSE -1

\* lines 405-433: downloadFile's temporary file is destPath + ".tmp", for the
\* destPath performDownload hands over (its own tempPath); it is opened for
\* appending when it exists and created empty when it does not
Opened(rec) ==
    LET tempPath == Tmp(Tmp(rec.job.Model.LocalPath))
        body == ServerBody(rec.req)
    IN  [rec EXCEPT !.dlResume = Size(tempPath), !.downloaded = Size(tempPath),
                    !.total = ContentLength(rec.job.SearchResult.Source, body)]

\* lines 435-445: n chunks of the body are read and appended to the file
Copied(f, tempPath, body, n) ==
    (tempPath :> ((IF tempPath \in DOMAIN f THEN f[tempPath] ELSE <<>>)
                  \o SubSeq(body, 1, n))) @@ f

\* lines 441-444 and 349-353: downloaded counts on from resumeFrom of
\* downloadFile, and onProgress adds resumeFrom of performDownload
Progressed(hp, rec, n) ==
    IF n = 0 THEN hp
    ELSE [hp EXCEPT ![rec.progress].Downloaded = rec.downloaded + n + rec.resumeFrom,
                    ![rec.progress].Total = rec.total]

\* an attempt that moves what it has received to the final path although the
\* read failed
W_ReadErrorPublishes(w, n) ==
    /\ wk[w].pc = "attempt"
    /\ LET rec == Opened(Started(wk[w]))
           final == rec.job.Model.LocalPath
           tempPath == Tmp(Tmp(final))
           body == ServerBody(rec.req)
           after == [rec EXCEPT !.downloaded = @ + n]
       IN  /\ n < Len(body)
           /\ fs' = Rename(Copied(fs, tempPath, body, n), tempPath, final)
           /\ writers' = writers \cup {<<tempPath, KeyOf(w)>>}
           /\ AttemptFails(w, after, Progressed(StartedHeap(wk[w]), rec, n),
                           ErrUnexpectedEOF)
           /\ hist' = [hist EXCEPT
                         ![KeyOf(w)].tries = @ + 1,
                         ![KeyOf(w)].partial = @ \/ n > 0,
                         ![KeyOf(w)].outcome = Outcome(Failed(after, ErrUnexpectedEOF))]
    /\ UNCHANGED <<cfgVars, mainVars, chanVars, dirs>>

\* lines 436-452: status 200, and Read fails after n chunks
W_ReadError(w, n) ==
    /\ wk[w].pc = "attempt"
    /\ LET rec == Opened(Started(wk[w]))
           tempPath == Tmp(Tmp(rec.job.Model.LocalPath))
           body == ServerBody(rec.req)
           after == [rec EXCEPT !.downloaded = @ + n]
       IN  /\ n < Len(body)
           /\ fs' = Copied(fs, tempPath, body, n)
           /\ writers' = writers \cup {<<tempPath, KeyOf(w)>>}
           /\ AttemptFails(w, after, Progressed(StartedHeap(wk[w]), rec, n),
                           ErrUnexpectedEOF)
           /\ hist' = [hist EXCEPT
                         ![KeyOf(w)].tries = @ + 1,
                         ![KeyOf(w)].partial = @ \/ n > 0,
                         ![KeyOf(w)].outcome = Outcome(Failed(after, ErrUnexpectedEOF))]
    /\ UNCHANGED <<cfgVars, mainVars, chanVars, dirs>>

\* lines 447-461: the whole body is copied, and os.Rename(tempPath, destPath)
\* fails
W_MoveTempFails(w) ==
    /\ wk[w].pc = "attempt"
    /\ LET rec == Opened(Started(wk[w]))
           tempPath == Tmp(Tmp(rec.job.Model.LocalPath))
           body == ServerBody(rec.req)
           n == Len(body)
           after == [rec EXCEPT !.downloaded = @ + n]
       IN  /\ fs' = Copied(fs, tempPath, body, n)
           /\ writers' = writers \cup {<<tempPath, KeyOf(w)>>}
           /\ AttemptFails(w, after, Progressed(StartedHeap(wk[w]), rec, n), ErrMoveTemp)
           /\ hist' = [hist EXCEPT
                         ![KeyOf(w)].tries = @ + 1,
                         ![KeyOf(w)].renameFailed = TRUE,
                         ![KeyOf(w)].outcome = Outcome(Failed(after, ErrMoveTemp))]
    /\ UNCHANGED <<cfgVars, mainVars, chanVars, dirs>>

\* lines 447-463 and 380-383: downloadFile moves its temporary file to destPath,
\* and performDownload's os.Rename(tempPath, job.Model.LocalPath) fails
W_MoveDownloadedFails(w) ==
    /\ wk[w].pc = "attempt"
    /\ LET rec == Opened(Started(wk[w]))
           destPath == Tmp(rec.job.Model.LocalPath)
           tempPath == Tmp(destPath)
           body == ServerBody(rec.req)
           n == Len(body)
           after == [rec EXCEPT !.downloaded = @ + n]
       IN  /\ fs' = Rename(Copied(fs, tempPath, body, n), tempPath, destPath)
           /\ writers' = writers \cup {<<tempPath, KeyOf(w)>>, <<destPath, KeyOf(w)>>}
           /\ AttemptFails(w, after, Progressed(StartedHeap(wk[w]), rec, n),
                           ErrMoveDownloaded)
           /\ hist' = [hist EXCEPT
                         ![KeyOf(w)].tries = @ + 1,
                         ![KeyOf(w)].renameFailed = TRUE,
                         ![KeyOf(w)].outcome = Outcome(Failed(after, ErrMoveDownloaded))]
    /\ UNCHANGED <<cfgVars, mainVars, chanVars, dirs>>

\* lines 447-463, 380-385 and 320-322: the whole body is copied, both renames
\* succeed, the attempt returns nil and downloadModel marks the progress completed
W_Download(w) ==
    /\ wk[w].pc = "attempt"
    /\ LET rec == Opened(Started(wk[w]))
           final == rec.job.Model.LocalPath
           destPath == Tmp(final)
           tempPath == Tmp(destPath)
           body == ServerBody(rec.req)
           n == Len(body)
           after == [rec EXCEPT !.downloaded = @ + n]
       IN  /\ fs' = Rename(Rename(Copied(fs, tempPath, body, n), tempPath, destPath),
                           destPath, final)
           /\ writers' = writers \cup {<<tempPath, KeyOf(w)>>, <<destPath, KeyOf(w)>>,
                                       <<final, KeyOf(w)>>}
           /\ SetWk(w, Returned(after, Nil))
           /\ heap' = [Progressed(StartedHeap(wk[w]), rec, n) EXCEPT
                         ![rec.progress].Completed = TRUE,
                         ![rec.progress].unlocked = @ \cup {"Completed"}]
           /\ hist' = [hist EXCEPT ![KeyOf(w)].tries = @ + 1,
                                   ![KeyOf(w)].outcome = "ok"]
    /\ UNCHANGED <<inputVars, mainVars, chanVars, dirs, downloads>>

\* ------------------------------------------------------------ ModelScanner
\* main.go 360-363: the extensions checkModelExists tries, in this order
extensions == <<".safetensors", ".ckpt", ".pt", ".pth", ".bin", ".yaml", ".json">>

\* filepath.Ext on the names of the model
Ext(name) ==
    CASE name = "sd15.safetensors" -> ".safetensors"
      [] name = "detail.safetensors" -> ".safetensors"
      [] name = "xl/sd15.safetensors" -> ".safetensors"
      [] OTHER -> ""

\* strings.TrimSuffix on the names of the model
TrimSuffix(name, suffix) ==
    IF suffix # ".safetensors" THEN name
    ELSE CASE name = "sd15.safetensors" -> "sd15"
           [] name = "detail.safetensors" -> "detail"
           [] name = "xl/sd15.safetensors" -> "xl/sd15"
           [] OTHER -> name

\* baseNameWithoutExt + ext
Concat(stem, ext) ==
    LET k == CHOOSE j \in 1..Len(extensions) : extensions[j] = ext
    IN  CASE stem = "sd15" ->
               <<"sd15.safetensors", "sd15.ckpt", "sd15.pt", "sd15.pth", "sd15.bin",
                 "sd15.yaml", "sd15.json">>[k]
          [] stem = "detail" ->
               <<"detail.safetensors", "detail.ckpt", "detail.pt", "detail.pth",
                 "detail.bin", "detail.yaml", "detail.json">>[k]
          [] stem = "xl/sd15" ->
               <<"xl/sd15.safetensors", "xl/sd15.ckpt", "xl/sd15.pt", "xl/sd15.pth",
                 "xl/sd15.bin", "xl/sd15.yaml", "xl/sd15.json">>[k]

\* os.Stat(path): a regular file, a directory, nothing, or an error that is
\* not "does not exist" (no permission to search the directory, an I/O error)
Stat(path) ==
    IF path \in statErr THEN "error"
    ELSE IF path \in DOMAIN fs THEN "file"
    ELSE IF path \in dirs THEN "dir"
    ELSE "absent"

\* main.go 518-521: err == nil && !info.IsDir()
fileExists(path) == Stat(path) = "file"

\* main.go 524-527: err == nil && info.IsDir()
dirExists(path) == Stat(path) = "dir"

\* main.go 356-357 and 367: filepath.Join(dirPath, baseNameWithoutExt+ext)
TestPath(model, ext) ==
    LET baseNameWithoutExt == TrimSuffix(model.Name, Ext(model.Name))
        dirPath == Dir(model.LocalPath)
    IN  dirPath \o Split(Concat(baseNameWithoutExt, ext))

\* main.go 349-380: <<exists, err>>; the error is nil on every path
checkModelExists(model) ==
    IF fileExists(model.LocalPath) THEN <<TRUE, Nil>>
    ELSE IF \E j \in 1..Len(extensions) : fileExists(TestPath(model, extensions[j]))
         THEN <<TRUE, Nil>>
         ELSE IF dirExists(model.LocalPath) THEN <<TRUE, Nil>>
              ELSE <<FALSE, Nil>>

\* fmt.Errorf("error checking model %s: %w", model.Name, err)
ScanError(model, err) == <<"error checking model", model.Name, ":">> \o err

\* the variables of the transfer engine
engineVars == <<models, searchResults, workers, RetryAttempts, faults, mainVars,
                chanVars, wk, regVars, hist, writers>>

\* ScanModels(parsed) entered: main.go 328-329
ScanCalled(round) == [NoScan EXCEPT !.pc = "loop", !.round = round]

\* a turn of the loop that leaves a placeholder where it found nothing
ScanStepTouches ==
    /\ sc.pc = "loop"
    /\ sc.i <= Len(parsed)
    /\ LET model == parsed[sc.i]
           r == checkModelExists(model)
           found == [model EXCEPT !.IsPresent = r[1]]
       IN  /\ sc' = IF r[1]
                    THEN [sc EXCEPT !.present = Append(@, found), !.i = @ + 1]
                    ELSE [sc EXCEPT !.missing = Append(@, found), !.i = @ + 1]
           /\ fs' = IF r[1] \/ Stat(model.LocalPath) # "absent" THEN fs
                    ELSE (model.LocalPath :> <<>>) @@ fs
    /\ UNCHANGED <<snap, rg, engineVars, resolveVars, pw, dirs, parsed, statErr>>

\* a turn of the loop that puts the reference at the head of its list
ScanStepPrepends ==
    /\ sc.pc = "loop"
    /\ sc.i <= Len(parsed)
    /\ LET model == parsed[sc.i]
           r == checkModelExists(model)
           found == [model EXCEPT !.IsPresent = r[1]]
       IN  sc' = IF r[2] # Nil
                 THEN [sc EXCEPT !.pc = "failed", !.present = <<>>, !.missing = <<>>,
                                 !.err = ScanError(model, r[2])]
                 ELSE IF r[1]
                      THEN [sc EXCEPT !.present = <<found>> \o @, !.i = @ + 1]
                      ELSE [sc EXCEPT !.missing = <<found>> \o @, !.i = @ + 1]
    /\ UNCHANGED <<snap, rg, engineVars, resolveVars, pw, fs, dirs, parsed, statErr>>

\* main.go 331-343: one turn of the loop of ScanModels
ScanStep ==
    /\ sc.pc = "loop"
    /\ sc.i <= Len(parsed)
    /\ LET model == parsed[sc.i]
           r == checkModelExists(model)
           found == [model EXCEPT !.IsPresent = r[1]]
       IN  sc' = IF r[2] # Nil
                 THEN [sc EXCEPT !.pc = "failed", !.present = <<>>, !.missing = <<>>,
                                 !.err = ScanError(model, r[2])]
                 ELSE IF r[1]
                      THEN [sc EXCEPT !.present = Append(@, found), !.i = @ + 1]
                      ELSE [sc EXCEPT !.missing = Append(@, found), !.i = @ + 1]
    /\ UNCHANGED <<snap, rg, engineVars, resolveVars, pw, fs, dirs, parsed, statErr>>

\* main.go 345: return present, missing, nil
ScanReturn ==
    /\ sc.pc = "loop"
    /\ sc.i > Len(parsed)
    /\ sc' = [sc EXCEPT !.pc = "returned"]
    /\ UNCHANGED <<snap, rg, engineVars, resolveVars, pw, fs, dirs, parsed, statErr>>

\* ScanModels is called once more, with the same references
ScanAgain ==
    /\ sc.pc = "returned"
    /\ sc.round = 1
    /\ sc' = [ScanCalled(2) EXCEPT !.first = <<sc.present, sc.missing>>]
    /\ UNCHANGED <<snap, rg, engineVars, resolveVars, pw, fs, dirs, parsed, statErr>>

\* the references a call of ScanModels can be given: a name may lie in a
\* subfolder of its category's directory
ScanRefs == Refs \cup {Model(ModelTypeCheckpoint, "xl/sd15.safetensors")}

\* the file of the expected directory that has the reference's base name and
\* the extension ext
SiblingPath(model, ext) ==
    LET file == Split(TestPath(model, ext)[Len(TestPath(model, ext))])
    IN  Dir(model.LocalPath) \o <<file[Len(file)]>>

\* the paths the disk of the model can hold something at
DiskPaths(q) ==
    UNION {{q[i].LocalPath, TestPath(q[i], ".ckpt"), SiblingPath(q[i], ".ckpt"),
            SiblingPath(q[i], ".json")} : i \in 1..Len(q)}

\* the transfer engine not called
EngineIdle ==
    /\ models = <<>>
    /\ searchResults = <<>>
    /\ workers = 0
    /\ RetryAttempts = 0
    /\ EngineAt("idle", MaxFaults)

\* ScanModels called on a list of references and a disk of at most MaxFiles
\* files and directories, MaxStatErr of whose paths cannot be examined
ScanInit ==
    /\ parsed \in {q \in SeqsUpTo(ScanRefs, MaxModels) : NoDup(q)}
    /\ \E objs \in {o \in SUBSET DiskPaths(parsed) : Cardinality(o) <= MaxFiles} :
         \E ds \in SUBSET {p \in objs : \E i \in 1..Len(parsed) : parsed[i].LocalPath = p} :
            /\ fs = [p \in objs \ ds |-> Content]
            /\ dirs = ds
    /\ statErr \in {e \in SUBSET DiskPaths(parsed) : Cardinality(e) <= MaxStatErr}
    /\ sc = ScanCalled(1)
    /\ tokens = NoTokens
    /\ rs = NoSearch
    /\ pw = NoWorkflow
    /\ snap = NoSnapshot
    /\ rg = NoListing
    /\ EngineIdle

ScanNext == ScanStep \/ ScanReturn \/ ScanAgain

ScanSpec == ScanInit /\ [][ScanNext]_vars

\* ------------------------------------------------------------ searchModels
\* main.go 170-181: the extension is cut off; no name of the model ends in
\* one of the suffixes that are cut off after it
cleanModelName(name) == TrimSuffix(name, Ext(name))

\* the j-th match a registry returns for a query in a category: part_000
\* 143-149 and part_002 128-135
Candidate(src, query, type, j) ==
    [Name |-> query, Source |-> src, DownloadURL |-> <<src, type, query, j>>,
     ModelType |-> type]

ErrSearch == <<"API error:", "500", "Internal Server Error">>

\* what SearchModels of a registry can return for a query: an error, no
\* match, or matches in the registry's order
SearchAnswers(src, query, type) ==
    {[err |-> ErrSearch, results |-> <<>>],
     [err |-> Nil, results |-> <<>>],
     [err |-> Nil, results |-> <<Candidate(src, query, type, 1),
                                 Candidate(src, query, type, 2)>>]}

\* what GetModelByHash can return: an error, nil for "not found", or the file
HashAnswers(hash) ==
    {[err |-> ErrSearch, result |-> NoResult],
     [err |-> Nil, result |-> NoResult],
     [err |-> Nil, result |-> [Name |-> hash, Source |-> "civitai",
                               DownloadURL |-> <<"civitai", hash>>, ModelType |-> ""]]}

\* a resolver that asks HuggingFace with or without a credential
AskHFAlways == TRUE

\* main.go 140: if m.config.HuggingFaceToken != ""
AskHF == tokens.HuggingFace # ""

\* main.go 135-167, for the answers hf, civit and byHash of the registries:
\* the result (NoResult for nil) and, in asked, the calls that were made
searchModel(model, hf, civit, byHash) ==
    LET searchName == cleanModelName(model.Name)
        askHF == AskHF
        hfCall == IF askHF THEN <<[api |-> "huggingface", query |-> searchName,
                                   type |-> model.Type, answer |-> hf]>>
                  ELSE <<>>
        civitCall == <<[api |-> "civitai", query |-> searchName, type |-> model.Type,
                        answer |-> civit]>>
        hashCall == <<[api |-> "civitai-hash", query |-> model.Hash, type |-> model.Type,
                       answer |-> byHash]>>
    IN  IF askHF /\ hf.err = Nil /\ Len(hf.results) > 0
        THEN [result |-> hf.results[1], asked |-> hfCall]
        ELSE IF civit.err = Nil /\ Len(civit.results) > 0
        THEN [result |-> civit.results[1], asked |-> hfCall \o civitCall]
        ELSE IF model.Hash # "" /\ tokens.CivitAI # ""
        THEN IF byHash.err = Nil /\ byHash.result # NoResult
             THEN [result |-> [byHash.result EXCEPT !.ModelType = model.Type],
                   asked |-> hfCall \o civitCall \o hashCall]
             ELSE [result |-> NoResult, asked |-> hfCall \o civitCall \o hashCall]
        ELSE [result |-> NoResult, asked |-> hfCall \o civitCall]

\* a goroutine of searchModels that has not run yet
NewTask == [pc |-> "search", result |-> NoResult, asked |-> <<>>]

\* main.go 110-128: searchModels(q) called and its goroutines started
SearchCalled(q) ==
    [pc |-> "wait", models |-> q, tasks |-> [i \in 1..Len(q) |-> NewTask],
     results |-> <<>>, mu |-> 0]

\* main.go 121: a goroutine runs searchModel
T_Search(i) ==
    /\ rs.pc = "wait"
    /\ i \in 1..Len(rs.tasks)
    /\ rs.tasks[i].pc = "search"
    /\ LET model == rs.models[i]
           query == cleanModelName(model.Name)
       IN  \E hf \in SearchAnswers("huggingface", query, model.Type) :
           \E civit \in SearchAnswers("civitai", query, model.Type) :
           \E byHash \in HashAnswers(model.Hash) :
              LET r == searchModel(model, hf, civit, byHash)
              IN  rs' = [rs EXCEPT !.tasks[i] =
                            [pc |-> IF r.result # NoResult THEN "store" ELSE "done",
                             result |-> r.result, asked |-> r.asked]]
    /\ UNCHANGED <<snap, rg, engineVars, scanVars, tokens, pw, fs, dirs>>

\* a goroutine that goes on without waiting for the mutex
T_LockBarges(i) ==
    /\ rs.pc = "wait"
    /\ i \in 1..Len(rs.tasks)
    /\ rs.tasks[i].pc = "store"
    /\ rs' = [rs EXCEPT !.tasks[i].pc = "locked", !.mu = i]
    /\ UNCHANGED <<snap, rg, engineVars, scanVars, tokens, pw, fs, dirs>>

\* main.go 123: mu.Lock() returns when no other goroutine holds the mutex
T_Lock(i) ==
    /\ rs.pc = "wait"
    /\ i \in 1..Len(rs.tasks)
    /\ rs.tasks[i].pc = "store"
    /\ rs.mu = 0
    /\ rs' = [rs EXCEPT !.tasks[i].pc = "locked", !.mu = i]
    /\ UNCHANGED <<snap, rg, engineVars, scanVars, tokens, pw, fs, dirs>>

\* main.go 124-125: results[model.Name] = *result; mu.Unlock()
T_Store(i) ==
    /\ rs.pc = "wait"
    /\ i \in 1..Len(rs.tasks)
    /\ rs.tasks[i].pc = "locked"
    /\ rs' = [rs EXCEPT !.tasks[i].pc = "done", !.mu = 0,
                        !.results = (rs.models[i].Name :> rs.tasks[i].result) @@ @]
    /\ UNCHANGED <<snap, rg, engineVars, scanVars, tokens, pw, fs, dirs>>

\* main.go 130-131: wg.Wait() and return results; the goroutines are gone,
\* what each of them found is kept for the record
SearchReturn ==
    /\ rs.pc = "wait"
    /\ \A i \in 1..Len(rs.tasks) : rs.tasks[i].pc = "done"
    /\ rs' = [rs EXCEPT !.pc = "returned",
                        !.tasks = [i \in 1..Len(rs.tasks) |->
                                     [rs.tasks[i] EXCEPT !.asked = <<>>]]]
    /\ UNCHANGED <<snap, rg, engineVars, scanVars, tokens, pw, fs, dirs>>

\* a reference that carries the content hash h
WithHash(model, h) == [model EXCEPT !.Hash = h]

Hashes == {"", "sha256:ab12"}

TokenSets == [HuggingFace : {"", "hf_token"}, CivitAI : {"", "civitai_token"}]

\* searchModels called on a list of missing references, with or without
\* content hashes, under every configuration of the two credentials
ResolveInit ==
    /\ \E q \in {l \in SeqsUpTo({WithHash(m, h) : m \in Refs, h \in Hashes}, MaxModels) :
                    \A i, j \in 1..Len(l) : i # j => Key(l[i]) # Key(l[j])} :
          rs = SearchCalled(q)
    /\ tokens \in TokenSets
    /\ pw = NoWorkflow
    /\ snap = NoSnapshot
    /\ rg = NoListing
    /\ parsed = <<>>
    /\ statErr = {}
    /\ sc = NoScan
    /\ fs = <<>>
    /\ dirs = {}
    /\ EngineIdle

ResolveNext ==
    SearchReturn \/ \E i \in 1..MaxModels : T_Search(i) \/ T_Lock(i) \/ T_Store(i)

ResolveSpec == ResolveInit /\ [][ResolveNext]_vars

\* --------------------------------------------------------- ProcessWorkflow
\* main.go 50: ScanModels(models) called on the parsed references
WorkflowCalled == [NoWorkflow EXCEPT !.pc = "scan"]

\* main.go 59-62: nothing is missing
P_AllPresent ==
    /\ pw.pc = "scan"
    /\ sc.pc = "returned"
    /\ Len(sc.missing) = 0
    /\ pw' = [pw EXCEPT !.pc = "done"]
    /\ UNCHANGED <<snap, rg, engineVars, scanVars, resolveVars, fs, dirs>>

\* a workflow that starts to search as soon as one reference is known to be
\* missing
P_SearchEarly ==
    /\ pw.pc = "scan"
    /\ Len(sc.missing) > 0
    /\ rs' = SearchCalled(sc.missing)
    /\ pw' = [pw EXCEPT !.pc = "search"]
    /\ UNCHANGED <<snap, rg, engineVars, scanVars, tokens, fs, dirs>>

\* main.go 72: searchResults := m.searchModels(missing)
P_Search ==
    /\ pw.pc = "scan"
    /\ sc.pc = "returned"
    /\ Len(sc.missing) > 0
    /\ rs' = SearchCalled(sc.missing)
    /\ pw' = [pw EXCEPT !.pc = "search"]
    /\ UNCHANGED <<snap, rg, engineVars, scanVars, tokens, fs, dirs>>

\* main.go 82-87: the references whose name is no key of the results
NotFound(missing, results) ==
    SelectSeq(missing, LAMBDA model : model.Name \notin DOMAIN results)

\* the other variables of the engine, when DownloadModels is called or not
P_EngineRest ==
    UNCHANGED <<workers, RetryAttempts, faults, qi, downloadErrors, result, chanVars,
                wk, regVars, hist, writers>>

\* a workflow that hands every parsed reference to DownloadModels
P_ReportPassesAll ==
    /\ pw.pc = "search"
    /\ rs.pc = "returned"
    /\ pw' = [pw EXCEPT !.notFound = NotFound(sc.missing, rs.results),
                        !.pc = IF Cardinality(DOMAIN rs.results) > 0 THEN "download"
                               ELSE "done"]
    /\ IF Cardinality(DOMAIN rs.results) > 0
       THEN /\ models' = parsed
            /\ searchResults' = rs.results
            /\ mpc' = "start"
       ELSE UNCHANGED <<models, searchResults, mpc>>
    /\ P_EngineRest
    /\ UNCHANGED <<snap, rg, scanVars, resolveVars, fs, dirs>>

\* main.go 80-99: the could-not-find report, and DownloadModels(missing,
\* searchResults) called if anything was found
P_Report ==
    /\ pw.pc = "search"
    /\ rs.pc = "returned"
    /\ pw' = [pw EXCEPT !.notFound = NotFound(sc.missing, rs.results),
                        !.pc = IF Cardinality(DOMAIN rs.results) > 0 THEN "download"
                               ELSE "done"]
    /\ IF Cardinality(DOMAIN rs.results) > 0
       THEN /\ models' = sc.missing
            /\ searchResults' = rs.results
            /\ mpc' = "start"
       ELSE UNCHANGED <<models, searchResults, mpc>>
    /\ P_EngineRest
    /\ UNCHANGED <<snap, rg, scanVars, resolveVars, fs, dirs>>

\* main.go 99-106: DownloadModels has returned
P_Return ==
    /\ pw.pc = "download"
    /\ mpc = "returned"
    /\ pw' = [pw EXCEPT !.pc = "done",
                        !.err = IF result # Nil THEN <<"download failed:">> \o result
                                ELSE Nil]
    /\ UNCHANGED <<snap, rg, engineVars, scanVars, resolveVars, fs, dirs>>

\* the configured number of tries and the failures of the environment in a
\* run of ProcessWorkflow
PipelineRetry == 1
PipelineFaults == 1

\* ProcessWorkflow at the call of ScanModels: the parsed references, a disk
\* that holds some of their files, a configuration
PipelineInit ==
    /\ parsed \in {q \in SeqsUpTo(Refs, MaxModels) : NoDup(q)}
    /\ \E objs \in SUBSET {parsed[i].LocalPath : i \in 1..Len(parsed)} :
          fs = [p \in objs |-> Content]
    /\ dirs = {}
    /\ statErr = {}
    /\ sc = ScanCalled(1)
    /\ tokens \in TokenSets
    /\ rs = NoSearch
    /\ pw = WorkflowCalled
    /\ snap = NoSnapshot
    /\ rg = NoListing
    /\ models = <<>>
    /\ searchResults = <<>>
    /\ workers = MaxWorkers
    /\ RetryAttempts = PipelineRetry
    /\ EngineAt("idle", PipelineFaults)

\* ------------------------------------------------------------ GetProgress
\* part_003 389-400: under d.mu, a new map with the keys of d.downloads and
\* the same pointers.  One call is followed; it is made while the registry
\* holds something
GetProgress ==
    /\ snap = NoSnapshot
    /\ downloads # <<>>
    /\ snap' = [taken |-> TRUE,
                progressCopy |-> [n \in DOMAIN downloads |-> downloads[n]],
                seen |-> [n \in DOMAIN downloads |-> heap[downloads[n]]]]
    /\ UNCHANGED <<models, searchResults, workers, RetryAttempts, scanVars, resolveVars,
                   pw, rg, faults, mainVars, chanVars, wk, regVars, diskVars, hist>>

\* part_001 72: RetryAttempts of DefaultConfig
DefaultRetryAttempts == 3

\* the environment may make every try of a job fail
ObservedFaults == 3

\* DownloadModels called with the default number of tries on one missing
\* reference that was found, while another goroutine may call GetProgress
ObservedInit ==
    /\ models \in {q \in ModelLists : Len(q) = 1}
    /\ searchResults = [n \in NamesOf(models) |-> SearchResult(n)]
    /\ workers \in 1..MaxWorkers
    /\ RetryAttempts = DefaultRetryAttempts
    /\ parsed = <<>>
    /\ statErr = {}
    /\ sc = NoScan
    /\ tokens = NoTokens
    /\ rs = NoSearch
    /\ pw = NoWorkflow
    /\ snap = NoSnapshot
    /\ rg = NoListing
    /\ fs = <<>>
    /\ dirs = {}
    /\ EngineAt("start", ObservedFaults)

\* ------------------------------------------------- the registries' files
\* the names of the files a registry may list
FileNames == {"sd15.safetensors", "sd15.ckpt", "SD15.PT", "sd15_vae.pth",
              "sd15_lora.bin", "sd15.zip"}

\* strings.ToLower on the names of the files
ToLowerName(name) == IF name = "SD15.PT" THEN "sd15.pt" ELSE name

\* strings.HasSuffix(name, ext) on the names of the files, for an extension
HasSuffix(name, ext) ==
    CASE name = "sd15.safetensors" -> ext = ".safetensors"
      [] name = "sd15.ckpt" -> ext = ".ckpt"
      [] name = "sd15.pt" -> ext = ".pt"
      [] name = "SD15.PT" -> ext = ".PT"
      [] name = "sd15_vae.pth" -> ext = ".pth"
      [] name = "sd15_lora.bin" -> ext = ".bin"
      [] name = "sd15.zip" -> ext = ".zip"
      [] OTHER -> FALSE

\* strings.Contains(name, word) on the names of the files, for "vae" and "lora"
Contains(name, word) ==
    \/ (name = "sd15_vae.pth" /\ word = "vae")
    \/ (name = "sd15_lora.bin" /\ word = "lora")

\* part_000 188: the extensions isModelFile accepts
modelExts == <<".safetensors", ".ckpt", ".pt", ".pth", ".bin">>

\* part_000 184-213
isModelFile(filename, modelType) ==
    LET lower == ToLowerName(filename)
        hasModelExt == \E j \in 1..Len(modelExts) : HasSuffix(lower, modelExts[j])
    IN  IF ~hasModelExt THEN FALSE
        ELSE CASE modelType = ModelTypeVAE -> Contains(lower, "vae")
               [] modelType = ModelTypeLora ->
                     Contains(lower, "lora") \/ ~Contains(lower, "vae")
               [] modelType = ModelTypeCheckpoint ->
                     ~Contains(lower, "vae") /\ ~Contains(lower, "lora")
               [] OTHER -> TRUE

\* part_002 181-186
validFormats == {"SafeTensor", "PickleTensor", "Model", "Other"}

\* part_002 167-190
isValidFile(file) ==
    IF file.VirusScanResult # "" /\ file.VirusScanResult # "Success" THEN FALSE
    ELSE IF /\ (\/ HasSuffix(ToLowerName(file.Name), ".ckpt")
                \/ HasSuffix(ToLowerName(file.Name), ".pt"))
            /\ file.PickleScanResult # ""
            /\ file.PickleScanResult # "Success"
         THEN FALSE
         ELSE file.Format \in validFormats

\* part_000 36-47: a file of a repository; HuggingFace reports no scan
HFRepoFiles == [RFilename : FileNames]

\* part_002 54-70: a file of a model version, with its scan results
CivitAIModelFiles ==
    [Name : {"sd15.safetensors", "sd15.ckpt", "SD15.PT", "sd15.zip"},
     VirusScanResult : {"", "Success", "Danger"},
     PickleScanResult : {"", "Success", "Danger"},
     Format : {"SafeTensor", "Other", "Diffusers"}]

\* part_000 143-149: the SearchResult made of a file, with the file kept
HFResult(file, modelType) ==
    [Name |-> file.RFilename, Source |-> "huggingface",
     DownloadURL |-> <<"huggingface", file.RFilename>>, ModelType |-> modelType,
     file |-> file]

\* part_002 128-135
CivitAIResult(file, modelType) ==
    [Name |-> file.Name, Source |-> "civitai", DownloadURL |-> <<"civitai", file.Name>>,
     ModelType |-> modelType, file |-> file]

\* part_000 140-158: one turn of getModelFiles' loop over the files
HF_Extract ==
    /\ rg.pc = "loop"
    /\ rg.api = "huggingface"
    /\ rg.i <= Len(rg.files)
    /\ rg' = [rg EXCEPT !.i = @ + 1,
                        !.results = IF isModelFile(rg.files[rg.i].RFilename, rg.modelType)
                                    THEN Append(@, HFResult(rg.files[rg.i], rg.modelType))
                                    ELSE @]
    /\ UNCHANGED <<snap, engineVars, scanVars, resolveVars, pw, fs, dirs>>

\* part_002 124-139: one turn of SearchModels' loop over the files
Civit_Extract ==
    /\ rg.pc = "loop"
    /\ rg.api = "civitai"
    /\ rg.i <= Len(rg.files)
    /\ rg' = [rg EXCEPT !.i = @ + 1,
                        !.results = IF isValidFile(rg.files[rg.i])
                                    THEN Append(@, CivitAIResult(rg.files[rg.i], rg.modelType))
                                    ELSE @]
    /\ UNCHANGED <<snap, engineVars, scanVars, resolveVars, pw, fs, dirs>>

\* part_000 160 and part_002 142: return results, nil
ExtractReturn ==
    /\ rg.pc = "loop"
    /\ rg.i > Len(rg.files)
    /\ rg' = [rg EXCEPT !.pc = "returned"]
    /\ UNCHANGED <<snap, engineVars, scanVars, resolveVars, pw, fs, dirs>>

\* how many files a response lists
MaxListing == 2

\* a registry has answered a search in a category with a list of files
ExtractInit ==
    /\ \E api \in {"huggingface", "civitai"} :
       \E type \in {ModelTypeCheckpoint, ModelTypeLora, ModelTypeVAE} :
       \E files \in SeqsUpTo(IF api = "huggingface" THEN HFRepoFiles
                             ELSE CivitAIModelFiles, MaxListing) :
          rg = [pc |-> "loop", api |-> api, modelType |-> type, files |-> files, i |-> 1,
                results |-> <<>>]
    /\ parsed = <<>>
    /\ statErr = {}
    /\ sc = NoScan
    /\ tokens = NoTokens
    /\ rs = NoSearch
    /\ pw = NoWorkflow
    /\ snap = NoSnapshot
    /\ fs = <<>>
    /\ dirs = {}
    /\ EngineIdle

ExtractNext == HF_Extract \/ Civit_Extract \/ ExtractReturn

ExtractSpec == ExtractInit /\ [][ExtractNext]_vars

\* ------------------------------------------------------ the specification
MainNext == StartWorkers \/ QueueJob \/ CloseJobs \/ CollectError \/ Return

WorkerNext(w) ==
    \/ W_Take(w)
    \/ W_Exit(w)
    \/ W_Send(w)
    \/ W_Begin(w)
    \/ W_MkdirFails(w)
    \/ W_TransportError(w)
    \/ \E status \in BadStatuses : W_BadStatus(w, status)
    \/ \E n \in 0..ContentLen : W_ReadError(w, n)
    \/ W_MoveTempFails(w)
    \/ W_MoveDownloadedFails(w)
    \/ W_Download(w)

Next == MainNext \/ CloseErrors \/ \E w \in WorkerIds : WorkerNext(w)

PipelineNext ==
    \/ ScanStep \/ ScanReturn
    \/ P_AllPresent \/ P_Search \/ P_Report \/ P_Return
    \/ SearchReturn
    \/ (\E i \in 1..MaxModels : T_Search(i) \/ T_Lock(i) \/ T_Store(i))
    \/ Next

PipelineSpec == PipelineInit /\ [][PipelineNext]_vars

ObservedNext == Next \/ GetProgress

ObservedSpec == ObservedInit /\ [][ObservedNext]_vars

Spec == Init /\ [][Next]_vars

\* the configurations with at most one try per job: the pool's shutdown does
\* not depend on how many tries a job makes
FairInit == Init /\ RetryAttempts <= 1

\* every goroutine that can run does run
FairSpec ==
    /\ FairInit
    /\ [][Next]_vars
    /\ WF_vars(MainNext)
    /\ WF_vars(CloseErrors)
    /\ \A w \in WorkerIds : WF_vars(WorkerNext(w))


\* ------------------------------------------------------------- the claims
\* the jobs DownloadModels is asked to run: a reference with a search result
EnqueuedKeys ==
    {Key(models[i]) : i \in {j \in 1..Len(models) : models[j].Name \in DOMAIN searchResults}}

FinalPath(k) == RefOf(k).LocalPath

Succeeded(k) == hist[k].outcome = "ok"
FailedJob(k) == hist[k].outcome = "failed"

\* the error texts the design calls terminal
TerminalSignatures == {"401", "403", "404", "not found", "forbidden", "unauthorized"}
TerminalText(err) == \E sig \in TerminalSignatures : ContainsFold(err, sig)

\* C1: a job of which one attempt failed after appending b > 0 bytes and a
\* later attempt succeeded has published, at its final path, exactly the bytes
\* of the artifact (and so as many bytes as the declared total)
C1_ResumedDownloadIsIdentical ==
    \A k \in Keys :
        (Succeeded(k) /\ hist[k].partial) =>
            /\ FinalPath(k) \in DOMAIN fs
            /\ fs[FinalPath(k)] = Content

\* C2: an attempt that starts while the temporary file holds b > 0 bytes of a
\* prior attempt sends a request that asks for the bytes from offset b on
C2_RequestAdvertisesOffset ==
    \A w \in WorkerIds :
        (wk[w].req.URL # <<>> /\ wk[w].staged > 0) =>
            /\ \E h \in wk[w].req.Header : h[1] = "Range"
            /\ RangeOf(wk[w].req) = wk[w].staged

\* C3: no attempt follows a failure with a terminal text, and a job gives up
\* on any other failure (a failure to create the directory too) only once it
\* has made RetryAttempts tries
C3_RetryOnlyNonTerminal ==
    \A w \in WorkerIds :
        /\ (wk[w].pc = "attempt" /\ wk[w].lastErr # Nil) => ~TerminalText(wk[w].lastErr)
        /\ (wk[w].pc = "send" /\ wk[w].ret # Nil /\ ~TerminalText(wk[w].ret)) =>
               hist[KeyOf(w)].tries >= RetryAttempts

\* C4: once a rename of a job has failed, the job makes no further attempt
C4_RenameFailureIsTerminal ==
    \A w \in WorkerIds :
        (wk[w].job # NoJob /\ hist[KeyOf(w)].renameFailed) => wk[w].pc = "send"

\* C5: no job makes more than RetryAttempts attempts
C5_AttemptsBounded == \A k \in Keys : hist[k].tries <= RetryAttempts

C5_Witness ==
    \E k \in Keys : /\ RetryAttempts >= 2
                    /\ hist[k].tries = RetryAttempts
                    /\ FailedJob(k)

\* C6: every enqueued job is taken from the queue at most once and, when
\* DownloadModels has returned, exactly once and has been processed, whatever
\* the pool size; no path is written by two jobs
C6_EachJobExactlyOnce ==
    /\ \A k \in Keys : Len(hist[k].takers) <= 1
    /\ \A k \in Keys \ EnqueuedKeys : hist[k].takers = <<>>
    /\ \A x \in writers : \A y \in writers : x[1] = y[1] => x[2] = y[2]
    /\ (mpc = "returned" =>
           \A k \in EnqueuedKeys : Len(hist[k].takers) = 1 /\ hist[k].outcome # "none")

\* the files a job works on
PathsOf(k) == {FinalPath(k), Tmp(FinalPath(k)), Tmp(Tmp(FinalPath(k)))}
FilesOf(k) == [p \in PathsOf(k) \cap DOMAIN fs |-> fs[p]]

\* when DownloadModels has returned, every enqueued job was taken by a worker
\* and ran to its own success or failure
C7_AllJobsSettled ==
    (mpc = "returned" /\ workers >= 1) =>
        \A k \in EnqueuedKeys : /\ Len(hist[k].takers) = 1
                                 /\ (Succeeded(k) \/ FailedJob(k))

\* the step in which a job ends in failure leaves the queue, and the outcome,
\* the record and the files of every other job, as they were
C7_FailureStep ==
    \A k \in Keys :
        (hist[k].outcome = "none" /\ hist'[k].outcome = "failed") =>
            /\ jobs' = jobs
            /\ jobsClosed' = jobsClosed
            /\ \A j \in Keys \ {k} :
                   /\ hist'[j] = hist[j]
                   /\ FilesOf(j)' = FilesOf(j)
                   /\ (j \in DOMAIN heap) => (j \in DOMAIN heap' /\ heap'[j] = heap[j])
            /\ \A w \in WorkerIds : (wk[w].job # NoJob /\ KeyOf(w) # k) => wk'[w] = wk[w]

\* C7: the failure of one job cancels, skips or changes no other job: every
\* other enqueued job is still taken and reaches its own success or failure
C7_SiblingsUnaffected == []C7_AllJobsSettled /\ [][C7_FailureStep]_vars

C7_Witness ==
    /\ mpc = "returned"
    /\ \E k \in EnqueuedKeys : \E j \in EnqueuedKeys :
           /\ FailedJob(k)
           /\ TerminalText(heap[k].Error)
           /\ Succeeded(j)
           /\ FinalPath(j) \in DOMAIN fs

\* the error a worker reports for a failed job
ReportedError(k) ==
    WorkerError(DownloadJob(RefOf(k), searchResults[RefOf(k).Name]), heap[k].Error)

FailedKeys == {k \in EnqueuedKeys : FailedJob(k)}

\* C8: what DownloadModels returns is the aggregate of the failures of the
\* jobs: one error for each job that failed and no other, and nil exactly
\* when no enqueued job failed
C8_ResultIsAggregate ==
    mpc = "returned" =>
        /\ Len(downloadErrors) = Cardinality(FailedKeys)
        /\ \A k \in FailedKeys : \E i \in 1..Len(downloadErrors) :
               downloadErrors[i] = ReportedError(k)
        /\ \A i \in 1..Len(downloadErrors) : \E k \in FailedKeys :
               downloadErrors[i] = ReportedError(k)
        /\ ((result = Nil) <=> (FailedKeys = {}))
        /\ (result # Nil => result = <<"download errors:">> \o Flatten(downloadErrors))

C8_Witness ==
    /\ mpc = "returned"
    /\ Cardinality(EnqueuedKeys) = 2
    /\ Cardinality(FailedKeys) = 1
    /\ Len(downloadErrors) = 1
    /\ result # Nil

\* the workers DownloadModels started
Spawned == 1..workers

\* the queue is closed only after every model was considered, a worker exits
\* only on the closed and drained queue, the errors channel is closed only
\* after every worker exited, and the result is returned only after that
C9_ShutdownOrder ==
    /\ (jobsClosed => qi > Len(models))
    /\ \A w \in Spawned : (wk[w].pc = "exited" => (jobsClosed /\ jobs = <<>>))
    /\ (errorsClosed => (wg = 0 /\ \A w \in Spawned : wk[w].pc = "exited"))
    /\ (mpc = "returned" => (errorsClosed /\ errors = <<>>))

\* C9: DownloadModels terminates: it returns in every execution in which
\* every goroutine that can take a step eventually does, and it returns
\* only after the queue was closed and every worker exited
C9_Terminates == <>(mpc = "returned") /\ []C9_ShutdownOrder

C9_Witness ==
    /\ mpc = "returned"
    /\ workers = MaxWorkers
    /\ Cardinality(EnqueuedKeys) = MaxModels
    /\ \A w \in Spawned : wk[w].pc = "exited"
    /\ \A k \in EnqueuedKeys : hist[k].takers # <<>>

\* C10: a TransferState registered under a name is never deleted and never
\* replaced by another
C10_ProgressNeverReplaced ==
    [][\A n \in DOMAIN downloads :
          n \in DOMAIN downloads' /\ downloads'[n] = downloads[n]]_vars

\* ---- the scanner
InList(q, model) == \E i \in 1..Len(q) : Key(q[i]) = Key(model)

\* a regular file that os.Stat can examine
RegularFileAt(path) == path \in DOMAIN fs /\ path \notin statErr

DirectoryAt(path) == path \in dirs /\ path \notin statErr

ToleratedExtensions == {".safetensors", ".ckpt", ".pt", ".pth", ".bin", ".yaml", ".json"}

\* the three ways of the design in which a reference is present
ShouldBePresent(model) ==
    \/ RegularFileAt(model.LocalPath)
    \/ \E ext \in ToleratedExtensions : RegularFileAt(SiblingPath(model, ext))
    \/ DirectoryAt(model.LocalPath)

\* C15: when ScanModels has returned, a reference is in the present list
\* exactly when its expected path is a regular file, or a regular file of its
\* base name and a tolerated extension lies in its expected directory, or its
\* expected path is a directory; every other reference is in the missing list
C15_PresentExactlyWhenFound ==
    sc.pc = "returned" =>
        \A i \in 1..Len(parsed) :
            /\ InList(sc.present, parsed[i]) <=> ShouldBePresent(parsed[i])
            /\ InList(sc.missing, parsed[i]) <=> ~ShouldBePresent(parsed[i])

\* the first access of the presence check of a reference fails
AccessFails(model) == model.LocalPath \in statErr

\* C16: a reference whose presence check hits a failing filesystem access is
\* put in neither list, and a call that meets such a reference reports a scan
\* failure instead of returning lists
C16_StatErrorIsScanFailure ==
    /\ \A i \in 1..Len(parsed) :
          AccessFails(parsed[i]) =>
              ~InList(sc.present, parsed[i]) /\ ~InList(sc.missing, parsed[i])
    /\ (\E i \in 1..Len(parsed) : AccessFails(parsed[i])) => sc.pc # "returned"

\* a second call of ScanModels returns what the first returned
C17_Repeatable ==
    (sc.round = 2 /\ sc.pc = "returned") => <<sc.present, sc.missing>> = sc.first

\* C17: no step of ScanModels changes the disk, and a second call on the same
\* references and the same disk returns the same present and missing lists
C17_ScanIsPure ==
    /\ [][fs' = fs /\ dirs' = dirs /\ statErr' = statErr]_vars
    /\ []C17_Repeatable

C17_Witness ==
    /\ sc.round = 2
    /\ sc.pc = "returned"
    /\ sc.present # <<>>
    /\ sc.missing # <<>>

\* ------------------------------------------------------------------ C18
\* the goroutines of searchModels that have run searchModel
Searched == {i \in 1..Len(rs.tasks) : rs.pc = "wait" /\ rs.tasks[i].pc # "search"}

\* a call of a registry that returned a non-empty result without error
Matched(call) ==
    /\ call.api \in {"huggingface", "civitai"}
    /\ call.answer.err = Nil
    /\ Len(call.answer.results) > 0

\* the name-based calls made for a reference, in the order they were made
NameCalls(task) == SelectSeq(task.asked, LAMBDA c : c.api \in {"huggingface", "civitai"})

\* the order of the registries for the configured credentials
RegistryOrder == IF tokens.HuggingFace # "" THEN <<"huggingface", "civitai">>
                 ELSE <<"civitai">>

\* C18: For every missing reference the registries are asked in the order
\* HuggingFace (only with its credential configured), then CivitAI (with or
\* without a credential), stopping at the first that returns a non-empty
\* result without error; the chosen candidate is the first match of that
\* registry's answer, from that registry alone.
C18_RegistryOrder ==
    \A i \in Searched :
        LET task == rs.tasks[i]
            calls == NameCalls(task)
        IN  /\ Len(calls) \in 1..Len(RegistryOrder)
            /\ \A k \in 1..Len(calls) :
                  /\ calls[k].api = RegistryOrder[k]
                  /\ calls[k].query = cleanModelName(rs.models[i].Name)
                  /\ (k < Len(calls) => ~Matched(calls[k]))
            /\ (Len(calls) < Len(RegistryOrder) => Matched(calls[Len(calls)]))
            /\ (Matched(calls[Len(calls)]) =>
                  /\ task.result = calls[Len(calls)].answer.results[1]
                  /\ task.result.Source = calls[Len(calls)].api
                  /\ task.asked = calls)

\* HuggingFace answered with an error or nothing and CivitAI, asked without a
\* credential, gave the candidate; another reference was matched on HuggingFace
C18_Witness ==
    /\ \A i \in 1..Len(rs.tasks) : rs.tasks[i].pc = "done"
    /\ tokens = [HuggingFace |-> "hf_token", CivitAI |-> ""]
    /\ \E i \in Searched :
          /\ Len(rs.tasks[i].asked) = 2
          /\ rs.tasks[i].result = Candidate("civitai", cleanModelName(rs.models[i].Name),
                                            rs.models[i].Type, 1)
    /\ \E i \in Searched :
          /\ Len(rs.tasks[i].asked) = 1
          /\ rs.tasks[i].result.Source = "huggingface"

\* ------------------------------------------------------------------ C19
\* no name-based search returned a match for the reference of the task
NoNameMatch(task) == \A k \in 1..Len(task.asked) : ~Matched(task.asked[k])

\* C19: For every missing reference that carries a content hash and has no
\* name-based match, a lookup by hash is made on CivitAI under every
\* configuration of the credentials, and its result is the chosen candidate.
C19_HashFallback ==
    \A i \in Searched :
        LET task == rs.tasks[i]
        IN  (rs.models[i].Hash # "" /\ NoNameMatch(task)) =>
                \E k \in 1..Len(task.asked) :
                    /\ task.asked[k].api = "civitai-hash"
                    /\ task.asked[k].query = rs.models[i].Hash
                    /\ task.result = task.asked[k].answer.result

\* ------------------------------------------------------------------ C11
\* no job for the reference is or was in the queue or with a worker, and no
\* attempt was made for it
NeverAJob(model) ==
    /\ \A j \in 1..Len(jobs) : Key(jobs[j].Model) # Key(model)
    /\ \A w \in WorkerIds : Key(wk[w].job.Model) # Key(model)
    /\ hist[Key(model)] = NoHist

\* C11: In every state of a run of ProcessWorkflow, a reference the scanner
\* classified as present has no job in the queue, was taken by no worker and
\* has had no download attempt.
C11_NoJobForPresent ==
    \A i \in 1..Len(sc.present) : NeverAJob(sc.present[i])

\* the run is over; a reference was present and another of the same name was
\* missing, was found and has been downloaded
C11_Witness ==
    /\ pw.pc = "done"
    /\ \E i \in 1..Len(sc.present) : \E j \in 1..Len(sc.missing) :
          /\ sc.present[i].Name = sc.missing[j].Name
          /\ Succeeded(Key(sc.missing[j]))
          /\ sc.missing[j].LocalPath \in DOMAIN fs

\* ------------------------------------------------------------------ C20
\* the missing references for which no registry path gave a candidate
WithoutCandidate ==
    {i \in 1..Len(rs.tasks) : rs.tasks[i].pc = "done" /\ rs.tasks[i].result = NoResult}

\* C20: Once the could-not-find report is made, a missing reference without
\* a candidate is no key of the resolver's mapping, has no transfer job and
\* is in the report; and every missing reference is in the mapping or in the
\* report.
C20_NoCandidateIsReported ==
    (pw.pc \in {"download", "done"} /\ rs.pc = "returned") =>
        /\ \A i \in WithoutCandidate :
              /\ rs.models[i].Name \notin DOMAIN rs.results
              /\ NeverAJob(rs.models[i])
              /\ InList(pw.notFound, rs.models[i])
        /\ \A j \in 1..Len(sc.missing) :
              \/ sc.missing[j].Name \in DOMAIN rs.results
              \/ InList(pw.notFound, sc.missing[j])

\* ------------------------------------------------------------------ C14
\* C14: No field of a DownloadProgress that is in the registry (Downloaded,
\* Total, Error, Completed) is ever written while the registry's lock is not
\* held.
C14_WritesUnderLock ==
    \A p \in DOMAIN heap : heap[p].unlocked = {}

\* ------------------------------------------------------------------ C12
\* the staging file of the job for reference k
StagingPath(k) == Tmp(FinalPath(k))

\* C12: In every step, a staging file <final>.tmp that exists either stays
\* with at least the bytes it had, or is renamed to the final path with at
\* least the bytes it had: its length never goes down between the tries of
\* its job.
C12_StagingNeverShrinks ==
    [][\A k \in Keys :
          StagingPath(k) \in DOMAIN fs =>
              IF StagingPath(k) \in DOMAIN fs'
              THEN Len(fs'[StagingPath(k)]) >= Len(fs[StagingPath(k)])
              ELSE /\ FinalPath(k) \in DOMAIN fs'
                   /\ Len(fs'[FinalPath(k)]) >= Len(fs[StagingPath(k)])]_vars

\* ------------------------------------------------------------------ C13
\* the fields of a DownloadProgress a caller can read
Readable(progress) ==
    [Downloaded |-> progress.Downloaded, Total |-> progress.Total,
     Error |-> progress.Error, Completed |-> progress.Completed]

\* C13: What a caller reads through the entries of the mapping GetProgress
\* returned is, at every later moment, what it was when the mapping was
\* returned.
C13_SnapshotIsFrozen ==
    snap.taken =>
        \A n \in DOMAIN snap.progressCopy :
            Readable(heap[snap.progressCopy[n]]) = Readable(snap.seen[n])

\* ------------------------------------------------------------------ C21
\* the goroutines of searchModels that found a candidate
FoundCandidate == {i \in 1..Len(rs.tasks) : rs.tasks[i].result # NoResult}

\* C21: searchModels has returned only when every goroutine is done; a
\* goroutine is at the write of the shared mapping only while it holds the
\* mutex; and the returned mapping has an entry for a reference exactly when
\* the goroutine of that reference found a candidate.
C21_ResultsExactlyFound ==
    /\ (rs.pc = "returned" => \A i \in 1..Len(rs.tasks) : rs.tasks[i].pc = "done")
    /\ (\A i \in 1..Len(rs.tasks) : (rs.tasks[i].pc = "locked" => rs.mu = i))
    /\ (rs.pc = "returned" =>
           \A i \in 1..Len(rs.tasks) :
               (rs.models[i].Name \in DOMAIN rs.results <=> i \in FoundCandidate))

\* ------------------------------------------------------------------ C22
\* the job pairs its reference with what the goroutine of that reference chose
PairedWithOwnCandidate(job) ==
    \E i \in 1..Len(rs.tasks) :
        /\ Key(rs.models[i]) = Key(job.Model)
        /\ job.SearchResult = rs.tasks[i].result
        /\ job.SearchResult.ModelType = job.Model.Type

\* C22: In a run of ProcessWorkflow every job in the queue or with a worker
\* carries the candidate the resolver chose for the job's own reference
\* (same name, same category).
C22_JobCarriesOwnCandidate ==
    /\ \A j \in 1..Len(jobs) : PairedWithOwnCandidate(jobs[j])
    /\ \A w \in WorkerIds : (wk[w].job # NoJob => PairedWithOwnCandidate(wk[w].job))

\* ------------------------------------------------------------------ C23
\* the extensions of model files
RecognizedExtensions == {".safetensors", ".ckpt", ".pt", ".pth", ".bin"}

EndsInRecognizedExtension(name) ==
    \E ext \in RecognizedExtensions : HasSuffix(ToLowerName(name), ext)

Pickled(name) == \E ext \in {".ckpt", ".pt"} : HasSuffix(ToLowerName(name), ext)

\* a scan status that is present and is not the success status
ScanFailed(file, field) ==
    field \in DOMAIN file /\ file[field] # "" /\ file[field] # "Success"

\* C23: Every search result a registry client has made of a listed file has
\* a name that ends in a recognized model extension, has no virus-scan
\* status other than success and, for .ckpt and .pt files, no pickle-scan
\* status other than success.
C23_CandidatesAreFiltered ==
    \A k \in 1..Len(rg.results) :
        /\ EndsInRecognizedExtension(rg.results[k].Name)
        /\ ~ScanFailed(rg.results[k].file, "VirusScanResult")
        /\ (Pickled(rg.results[k].Name) =>
               ~ScanFailed(rg.results[k].file, "PickleScanResult"))

\* ------------------------------------------------------------------ C24
FileAt(f, path) == IF path \in DOMAIN f THEN f[path] ELSE <<"no file">>

\* the step is the end of an attempt of worker w for reference k in which the
\* whole body was read and appended and both renames succeeded
PublishedBy(w, k) ==
    /\ wk[w].pc = "attempt"
    /\ KeyOf(w) = k
    /\ wk'[w].pc = "send"
    /\ wk'[w].ret = Nil
    /\ fs'[FinalPath(k)] =
          (IF Tmp(StagingPath(k)) \in DOMAIN fs THEN fs[Tmp(StagingPath(k))] ELSE <<>>)
          \o ServerBody(wk'[w].req)
    /\ StagingPath(k) \notin DOMAIN fs'
    /\ Tmp(StagingPath(k)) \notin DOMAIN fs'

\* C24: A step changes or creates the file at the final path of a job only
\* as the rename of the staging file of an attempt whose body was read to
\* the end without error; the steps of failing attempts leave it as it was.
C24_FinalPathOnlyByPublish ==
    [][\A k \in Keys :
          FileAt(fs', FinalPath(k)) # FileAt(fs, FinalPath(k)) =>
              \E w \in WorkerIds : PublishedBy(w, k)]_vars

\* a job was published after a try of it had failed with bytes received, and
\* another job has failed for good with nothing at its final path
C24_Witness ==
    /\ \E k \in EnqueuedKeys :
          /\ Succeeded(k)
          /\ hist[k].partial
          /\ FinalPath(k) \in DOMAIN fs
    /\ \E j \in EnqueuedKeys :
          /\ FailedJob(j)
          /\ hist[j].tries > 0
          /\ FinalPath(j) \notin DOMAIN fs

\* ------------------------------------------------------------------ C25
\* C25: Every file a job has written bytes to or renamed is its staging file
\* <final>.tmp (or, at the publish, its final path), and the offset an
\* attempt uses for the progress accounting is the length the file it appends
\* to had when the attempt started.
C25_StagingAtFinalTmp ==
    /\ \A x \in writers : x[1] \in {StagingPath(x[2]), FinalPath(x[2])}
    /\ \A w \in WorkerIds :
          (wk[w].pc \in {"attempt", "send"} /\ hist[KeyOf(w)].tries > 0) =>
              wk[w].resumeFrom = wk[w].staged

\* ------------------------------------------------------------------ C26
\* the workers that have made at least one attempt for the job they hold
Attempting == {w \in WorkerIds : wk[w].pc \in {"attempt", "send"} /\ hist[KeyOf(w)].tries > 0}

MatchedByExtension(model) ==
    /\ ~fileExists(model.LocalPath)
    /\ \E j \in 1..Len(extensions) : fileExists(TestPath(model, extensions[j]))

\* the first of the tried paths that holds a file
FoundPath(model) ==
    LET j == CHOOSE j \in 1..Len(extensions) :
                 /\ fileExists(TestPath(model, extensions[j]))
                 /\ \A k \in 1..(j - 1) : ~fileExists(TestPath(model, extensions[k]))
    IN  TestPath(model, extensions[j])

\* C27: A reference of the present list that was found by check (b) carries,
\* as its local path, the path of the file that was found.
C27_PresentCarriesFoundPath ==
    \A i \in 1..Len(parsed) : \A k \in 1..Len(sc.present) :
        (Key(sc.present[k]) = Key(parsed[i]) /\ MatchedByExtension(parsed[i])) =>
            sc.present[k].LocalPath = FoundPath(parsed[i])

\* ------------------------------------------------------------------ C28
\* DownloadModels was called, or something of a download exists
DownloadBegun ==
    \/ mpc # "idle"
    \/ jobs # <<>>
    \/ downloads # <<>>
    \/ \E k \in Keys : hist[k] # NoHist

\* C28: In a run of ProcessWorkflow the search has begun only when ScanModels
\* has returned its lists, a download has begun only when searchModels has
\* returned with every goroutine done, and after a failed scan or a scan
\* with nothing missing there is neither a search nor a download.  (No run
\* of the scanner ends in failure: checkModelExists returns no error.)
C28_PhasesInOrder ==
    /\ (rs.pc # "none" => (sc.pc = "returned" /\ sc.i > Len(parsed)))
    /\ (DownloadBegun =>
           /\ rs.pc = "returned"
           /\ \A i \in 1..Len(rs.tasks) : rs.tasks[i].pc = "done")
    /\ ((sc.pc = "failed" \/ (sc.pc = "returned" /\ Len(sc.missing) = 0)) =>
           (rs.pc = "none" /\ ~DownloadBegun))

\* a run with two missing references went through the three phases to its end
C28_Witness ==
    /\ pw.pc = "done"
    /\ mpc = "returned"
    /\ Len(sc.missing) = 2
    /\ rs.pc = "returned"
    /\ \E k \in Keys : hist[k].tries > 0

\* ------------------------------------------------------------------ C29
\* the file of reference k is at its final path and its DownloadProgress is
\* marked completed
PublishedAndCompleted(k) ==
    /\ FinalPath(k) \in DOMAIN fs
    /\ k \in DOMAIN heap
    /\ heap[k].Completed

\* C29: When DownloadModels has returned nil, every model that has an entry
\* in the search results is published at its path and marked completed, for
\* every number of workers and of tries from 0 on.
C29_NilMeansAllPublished ==
    (mpc = "returned" /\ result = Nil) =>
        \A k \in EnqueuedKeys : PublishedAndCompleted(k)

\* ------------------------------------------------------------------ C30
\* C30: In every state a DownloadProgress that is marked completed records
\* no error, and the DownloadProgress of a job that has ended in failure
\* records an error and is not marked completed.
C30_CompletedXorError ==
    \A p \in DOMAIN heap :
        /\ (heap[p].Completed => heap[p].Error = Nil)
        /\ (FailedJob(p) => (heap[p].Error # Nil /\ ~heap[p].Completed))

\* ------------------------------------------------------------------ C31
\* C31: In every state, a DownloadProgress whose Total is greater than zero
\* has a Downloaded value that is at most its Total, also while an attempt
\* appends to a temporary file that already holds bytes.
C31_DownloadedAtMostTotal ==
    \A p \in DOMAIN heap :
        heap[p].Total > 0 => heap[p].Downloaded <= heap[p].Total

\* ------------------------------------------------------------------ C32
\* the references of the list q, by category and name, in the order of q
KeysOf(q) == [i \in 1..Len(q) |-> Key(q[i])]

\* the elements of q at the positions S, in the order of q
Along(q, S) ==
    LET idx == SelectSeq([i \in 1..Len(q) |-> i], LAMBDA i : i \in S)
    IN  [j \in 1..Len(idx) |-> q[idx[j]]]

\* C32: when ScanModels has returned without error, the present and missing
\* lists partition the input: the positions of the input split into two sets,
\* the present list is the input at the positions of one and the missing list
\* the input at the positions of the other, each in the order of the input, so
\* that every reference is in exactly one list and none is added.
C32_ScanPartitionsInput ==
    sc.pc = "returned" =>
        \E P \in SUBSET (1..Len(parsed)) :
            /\ KeysOf(sc.present) = KeysOf(Along(parsed, P))
            /\ KeysOf(sc.missing) = KeysOf(Along(parsed, (1..Len(parsed)) \ P))

C32_Witness ==
    /\ sc.pc = "returned"
    /\ sc.round = 1
    /\ Len(parsed) = MaxModels
    /\ Len(sc.missing) = 1
    /\ Len(sc.present) = 1
    /\ Key(sc.present[1]) = Key(parsed[2])

====
